---- MODULE Spec2Model ----
(***************************************************************************)
(* Model of the structural column calculator: the Load / Column /          *)
(* SteelColumn data types and free functions of structural_columns/        *)
(* columns.py, and the height sweep and two-column comparison of           *)
(* sample_app_module.py.                                                   *)
(*                                                                         *)
(* Numbers are kept exact.  A rational is a normalised pair <<num, den>>.  *)
(* A computed value is a record tagged by its closed form:                 *)
(*   "num"  : c                                                            *)
(*   "pi2"  : c * pi^2                                                     *)
(*   "sqrt" : sqrt(c)                                                      *)
(*   "pr"   : c * (1 + (q / pi^2)^n) ^ (e / n)      (n in hundredths)      *)
(* An evaluation ends in an outcome: a value or a Python exception.        *)
(***************************************************************************)
EXTENDS Integers, Sequences, FiniteSets, TLC

\* ------------------------------------------------------------------------
\* Bounds of the explored input space
\* ------------------------------------------------------------------------
MaxHeight == 3
MaxInterval == 2
MaxDim == 2
MaxFactor == 1

\* ------------------------------------------------------------------------
\* Exact arithmetic
\* ------------------------------------------------------------------------
Abs(x) == IF x < 0 THEN -x ELSE x

RECURSIVE GCD(_, _)
GCD(a, b) == IF b = 0 THEN a ELSE GCD(b, a % b)

\* the rational n/d (d # 0) in lowest terms with a positive denominator
Rat(n, d) ==
    LET s == IF d < 0 THEN -1 ELSE 1
        g == GCD(Abs(n), Abs(d))
    IN  <<(s * n) \div g, (s * d) \div g>>

RMul(a, b) == Rat(a[1] * b[1], a[2] * b[2])
RDiv(a, b) == Rat(a[1] * b[2], a[2] * b[1])
RAdd(a, b) == Rat(a[1] * b[2] + b[1] * a[2], a[2] * b[2])
RLess(a, b) == a[1] * b[2] < b[1] * a[2]

\* closed forms of computed values
Num(c) == [kind |-> "num", c |-> c]
Pi2(c) == [kind |-> "pi2", c |-> c]
Sqrt(c) == [kind |-> "sqrt", c |-> c]
Pr(c, q, n, e) == [kind |-> "pr", c |-> c, q |-> q, n |-> n, e |-> e]

\* outcomes of a call
Ok(v) == [tag |-> "ok", val |-> v]
Raise(exc) == [tag |-> exc]
IsOk(o) == o.tag = "ok"
ZeroDivisionError == Raise("ZeroDivisionError")
ValueError == Raise("ValueError")
UnboundLocalError == Raise("UnboundLocalError")

\* ------------------------------------------------------------------------
\* structural_columns/columns.py : free functions
\* ------------------------------------------------------------------------
Load(D, L, S, W, E) == [D |-> D, L |-> L, S |-> S, W |-> W, E |-> E]

RECURSIVE PyMaxFrom(_, _, _)
PyMaxFrom(seq, i, best) ==
    IF i > Len(seq) THEN best
    ELSE PyMaxFrom(seq, i + 1, IF RLess(best, seq[i]) THEN seq[i] ELSE best)

\* max(list): the first largest element of a non-empty list
PyMax(seq) == PyMaxFrom(seq, 2, seq[1])

\* variant: a wind combination is added to the list
factored_loads_wind(load) ==
    << Rat(140 * load.D, 100),
       Rat(125 * load.D + 150 * load.L, 100),
       Rat(125 * load.D + 150 * load.L + 100 * load.S, 100),
       Rat(125 * load.D + 150 * load.S + 100 * load.L, 100),
       Rat(125 * load.D + 140 * load.W, 100) >>

\* the four NBCC combinations, factors written in hundredths
factored_loads(load) ==
    << Rat(140 * load.D, 100),
       Rat(125 * load.D + 150 * load.L, 100),
       Rat(125 * load.D + 150 * load.L + 100 * load.S, 100),
       Rat(125 * load.D + 150 * load.S + 100 * load.L, 100) >>

max_factored_load(load) == Ok(Num(PyMax(factored_loads(load))))

\* r = sqrt(I / A)
radius_of_gyration(I, A) ==
    IF A = 0 THEN ZeroDivisionError
    ELSE IF RLess(Rat(I, A), Rat(0, 1)) THEN ValueError
    ELSE Ok(Sqrt(Rat(I, A)))

\* variant: a zero effective length is rejected as an invalid argument
eulerbucklingload_checked(E, I, k, L) ==
    IF k * (L * L) = 0 THEN ValueError
    ELSE Ok(Pi2(Rat(E * I, k * (L * L))))

\* P_E = (pi**2 * E * I) / (k * L**2)
eulerbucklingload(E, I, k, L) ==
    IF k * (L * L) = 0 THEN ZeroDivisionError
    ELSE Ok(Pi2(Rat(E * I, k * (L * L))))

\* P_E / area, for P_E a multiple of pi^2
StressOf(P_E, area) ==
    IF area = 0 THEN ZeroDivisionError
    ELSE Ok(Pi2(RDiv(P_E.c, Rat(area, 1))))

\* min(F_e_x, F_e_y): the first smallest argument
PyMin2(a, b) == IF RLess(b.c, a.c) THEN b ELSE a

\* lamb = sqrt(f_y / F_e), kept as lamb^2 * pi^2
Slenderness(f_y, F_e) ==
    IF F_e.c = <<0, 1>> THEN ZeroDivisionError
    ELSE IF RLess(RDiv(Rat(f_y, 1), F_e.c), Rat(0, 1)) THEN ValueError
    ELSE Ok(RDiv(Rat(f_y, 1), F_e.c))

\* P_r = phi * area * f_y * ((1 + lamb ** (2 * n)) ** (-1 / n))
Resistance(phi, area, f_y, lamb2, n) ==
    LET c == RMul(RMul(phi, Rat(area, 1)), Rat(f_y, 1))
    IN  IF lamb2 = <<0, 1>> /\ n < 0 THEN ZeroDivisionError
        ELSE IF n = 0 THEN ZeroDivisionError
        ELSE IF c = <<0, 1>> THEN Ok(Num(c))
        ELSE IF lamb2 = <<0, 1>> THEN Ok(Num(c))
        ELSE Ok(Pr(c, lamb2, n, -1))

factored_axial_capacity(area, I_x, I_y, k_x, k_y, L, E, f_y, n, phi) ==
    LET P_E_x == eulerbucklingload(E, I_x, k_x, L)
        F_e_x == StressOf(P_E_x.val, area)
        P_E_y == eulerbucklingload(E, I_y, k_y, L)
        F_e_y == StressOf(P_E_y.val, area)
        F_e   == PyMin2(F_e_x.val, F_e_y.val)
        lamb  == Slenderness(f_y, F_e)
    IN  IF ~IsOk(P_E_x) THEN P_E_x
        ELSE IF ~IsOk(F_e_x) THEN F_e_x
        ELSE IF ~IsOk(P_E_y) THEN P_E_y
        ELSE IF ~IsOk(F_e_y) THEN F_e_y
        ELSE IF ~IsOk(lamb) THEN lamb
        ELSE Resistance(phi, area, f_y, lamb.val, n)

\* the default of the keyword argument phi
DefaultPhi == Rat(9, 10)

\* ------------------------------------------------------------------------
\* structural_columns/columns.py : Column and SteelColumn
\* ------------------------------------------------------------------------
SteelColumn(height, area, Ix, Iy, kx, ky, E, column_tag, fy, axial_loads, phi) ==
    [height |-> height, area |-> area, Ix |-> Ix, Iy |-> Iy, kx |-> kx,
     ky |-> ky, E |-> E, column_tag |-> column_tag, fy |-> fy,
     axial_loads |-> axial_loads, phi |-> phi]

\* variant: the label is compared as given
lower_omitted(s) == s

\* axis labels are strings of code points; str.lower() on ASCII
lower(s) == [i \in DOMAIN s |-> IF s[i] >= 65 /\ s[i] <= 90 THEN s[i] + 32 ELSE s[i]]
StrX == <<120>>
StrY == <<121>>

Column_radius_of_gyration(self, axis) ==
    IF lower(axis) = StrX THEN radius_of_gyration(self.Ix, self.area)
    ELSE IF lower(axis) = StrY THEN radius_of_gyration(self.Iy, self.area)
    ELSE UnboundLocalError

Column_euler_buckling_load(self, axis) ==
    IF lower(axis) = StrX THEN eulerbucklingload(self.E, self.Ix, self.kx, self.height)
    ELSE IF lower(axis) = StrY THEN eulerbucklingload(self.E, self.Iy, self.ky, self.height)
    ELSE UnboundLocalError

SteelColumn_factored_axial_load(self) == max_factored_load(self.axial_loads)

\* variant: Ix is passed for both axes
SteelColumn_factored_axial_capacity_one_axis(self, n) ==
    factored_axial_capacity(self.area, self.Ix, self.Ix, self.kx, self.ky,
                            self.height, self.E, self.fy, n, DefaultPhi)

SteelColumn_factored_axial_capacity(self, n) ==
    factored_axial_capacity(self.area, self.Ix, self.Iy, self.kx, self.ky,
                            self.height, self.E, self.fy, n, DefaultPhi)

\* a / b on computed values (a a plain number)
ValDiv(a, b) ==
    IF b.c = <<0, 1>> THEN ZeroDivisionError
    ELSE IF a.c = <<0, 1>> THEN Ok(Num(a.c))
    ELSE IF b.kind = "num" THEN Ok(Num(RDiv(a.c, b.c)))
    ELSE Ok(Pr(RDiv(a.c, b.c), b.q, b.n, -b.e))

\* variant: a zero capacity is special-cased
SteelColumn_factored_dcr_guarded(self, n) ==
    LET load == SteelColumn_factored_axial_load(self)
        cap  == SteelColumn_factored_axial_capacity(self, n)
    IN  IF ~IsOk(load) THEN load
        ELSE IF ~IsOk(cap) THEN cap
        ELSE IF cap.val.c = <<0, 1>> THEN Ok(Num(<<0, 1>>))
        ELSE ValDiv(load.val, cap.val)

SteelColumn_factored_dcr(self, n) ==
    LET load == SteelColumn_factored_axial_load(self)
        cap  == SteelColumn_factored_axial_capacity(self, n)
    IN  IF ~IsOk(load) THEN load
        ELSE IF ~IsOk(cap) THEN cap
        ELSE ValDiv(load.val, cap.val)

\* ------------------------------------------------------------------------
\* sample_app_module.py : height sweep and comparison
\* ------------------------------------------------------------------------
\* variant: the stop value is included
RECURSIVE PyRangeClosed(_, _, _)
PyRangeClosed(lo, hi, step) ==
    IF (step > 0 /\ lo <= hi) \/ (step < 0 /\ lo >= hi)
    THEN <<lo>> \o PyRangeClosed(lo + step, hi, step)
    ELSE <<>>

\* list(range(lo, hi, step)) for step # 0
RECURSIVE PyRange(_, _, _)
PyRange(lo, hi, step) ==
    IF (step > 0 /\ lo < hi) \/ (step < 0 /\ lo > hi)
    THEN <<lo>> \o PyRange(lo + step, hi, step)
    ELSE <<>>

\* the shape parameter the sweep passes to factored_axial_capacity, in hundredths
SweepN == 134

None == [tag |-> "None"]

VARIABLES
    pc,           \* position of the running call
    op,           \* the entry point that was called
    args,         \* its arguments
    ret,          \* its outcome: None while running, then a value or an exception
    prev,         \* arguments and outcome of the preceding compare_two_columns call
    sweep_args,   \* arguments of the running column_pr_over_height_range
    x_values,     \* its local x_values
    test_column,  \* its local test_column (mutated at every step)
    y_values,     \* its local y_values
    idx,          \* position of the for loop in x_values
    x_values_a,   \* locals of compare_two_columns
    y_values_a

vars == <<pc, op, args, ret, prev, sweep_args, x_values, test_column, y_values,
          idx, x_values_a, y_values_a>>

sweep_vars == <<sweep_args, x_values, test_column, y_values, idx, x_values_a, y_values_a>>

\* ------------------------------------------------------------------------
\* Inputs
\* ------------------------------------------------------------------------
HeightStarts == {-1, 0, 1}
IntervalValues == 0 .. MaxInterval

\* section properties (area, i_x, i_y, E, fy) offered to the comparison
Sections ==
    { [area |-> 1, i_x |-> 2, i_y |-> 1, E |-> 1, fy |-> 1],
      [area |-> 2, i_x |-> 1, i_y |-> 3, E |-> 1, fy |-> 2],
      [area |-> 0, i_x |-> 1, i_y |-> 1, E |-> 1, fy |-> 1],
      [area |-> 1, i_x |-> 1, i_y |-> 1, E |-> 0, fy |-> 1] }

WithRange(a, lo, hi, st) ==
    [a EXCEPT !.min_height = lo, !.max_height = hi, !.interval = st]

WithA(a, s) ==
    [a EXCEPT !.area_a = s.area, !.i_x_a = s.i_x, !.i_y_a = s.i_y, !.E_a = s.E,
              !.fy_a = s.fy]

WithB(a, s) ==
    [a EXCEPT !.area_b = s.area, !.i_x_b = s.i_x, !.i_y_b = s.i_y, !.E_b = s.E,
              !.fy_b = s.fy]

BlankArgs ==
    [min_height |-> 0, max_height |-> 0, interval |-> 0,
     area_a |-> 0, i_x_a |-> 0, i_y_a |-> 0, E_a |-> 0, fy_a |-> 0,
     area_b |-> 0, i_x_b |-> 0, i_y_b |-> 0, E_b |-> 0, fy_b |-> 0]

Ranges == HeightStarts \X (0 .. MaxHeight) \X IntervalValues

\* the values app.py can pass on its first run
CompareArgs ==
    { WithRange(WithA(WithB(BlankArgs, b), a), r[1], r[2], r[3]) :
      r \in Ranges, a \in Sections, b \in Sections }

\* the values app.py can pass on a rerun: the widgets of one sidebar group
\* (results parameters, column section A, column section B) were edited
EditedArgs(a) ==
    { WithRange(a, r[1], r[2], r[3]) : r \in Ranges }
    \cup { WithA(a, s) : s \in Sections }
    \cup { WithB(a, s) : s \in Sections }

SweepArgs(min_height, max_height, interval, column_tag, area, i_x, i_y, E, fy) ==
    [min_height |-> min_height, max_height |-> max_height, interval |-> interval,
     column_tag |-> column_tag, area |-> area, i_x |-> i_x, i_y |-> i_y,
     E |-> E, fy |-> fy]

\* the first call of column_pr_over_height_range in compare_two_columns
SweepCallA(a) ==
    SweepArgs(a.min_height, a.max_height, a.interval, "Column A",
              a.area_a, a.i_x_a, a.i_y_a, a.E_a, a.fy_a)

\* variant: the second call is given column A's yield strength
SweepCallBMixed(a) ==
    SweepArgs(a.min_height, a.max_height, a.interval, "Column B",
              a.area_b, a.i_x_b, a.i_y_b, a.E_b, a.fy_a)

\* the second call of column_pr_over_height_range in compare_two_columns
SweepCallB(a) ==
    SweepArgs(a.min_height, a.max_height, a.interval, "Column B",
              a.area_b, a.i_x_b, a.i_y_b, a.E_b, a.fy_b)

Init ==
    /\ pc = "idle"
    /\ op = "none"
    /\ args = None
    /\ ret = None
    /\ prev = None
    /\ sweep_args = None
    /\ x_values = <<>>
    /\ test_column = None
    /\ y_values = <<>>
    /\ idx = 0
    /\ x_values_a = <<>>
    /\ y_values_a = <<>>

\* the locals of a frame that has been left
NoLocals ==
    /\ sweep_args' = None
    /\ x_values' = <<>>
    /\ test_column' = None
    /\ y_values' = <<>>
    /\ idx' = 0

\* app.py calls compare_two_columns (first run, or rerun after an edit);
\* its first statement calls the sweep for "Column A"
CompareTwoColumns ==
    /\ \/ pc = "idle"
       \/ pc \in {"done", "raised"} /\ op = "compare_two_columns"
    /\ \E a \in (IF pc = "idle" THEN CompareArgs ELSE EditedArgs(args)) :
         /\ args' = a
         /\ sweep_args' = SweepCallA(a)
    /\ prev' = IF pc = "idle" THEN None ELSE [args |-> args, ret |-> ret]
    /\ op' = "compare_two_columns"
    /\ ret' = None
    /\ pc' = "sweep_a"
    /\ UNCHANGED <<x_values, test_column, y_values, idx, x_values_a, y_values_a>>

\* the arguments of SteelColumn(...) in column_pr_over_height_range
NewTestColumn(s) ==
    SteelColumn(s.min_height, s.area, s.i_x, s.i_y, 1, 1, s.E, s.column_tag, s.fy,
                Load(0, 0, 0, 0, 0), DefaultPhi)

\* column_pr_over_height_range up to the for loop
SweepBegin ==
    /\ pc \in {"sweep_a", "sweep_b"}
    /\ IF sweep_args.interval = 0
       THEN /\ ret' = ValueError
            /\ pc' = "raised"
            /\ NoLocals
            /\ x_values_a' = <<>>
            /\ y_values_a' = <<>>
       ELSE /\ x_values' = PyRange(sweep_args.min_height, sweep_args.max_height,
                                   sweep_args.interval)
            /\ test_column' = NewTestColumn(sweep_args)
            /\ y_values' = <<>>
            /\ idx' = 1
            /\ pc' = IF pc = "sweep_a" THEN "loop_a" ELSE "loop_b"
            /\ UNCHANGED <<ret, sweep_args, x_values_a, y_values_a>>
    /\ UNCHANGED <<op, args, prev>>

\* variant: the height is not written before the evaluation
SetHeightSkipped(col, x_value) == col

\* test_column.height = x_value
SetHeight(col, x_value) == [col EXCEPT !.height = x_value]

\* one iteration of the for loop; an exception leaves both frames
SweepStep ==
    /\ pc \in {"loop_a", "loop_b"}
    /\ idx <= Len(x_values)
    /\ LET col == SetHeight(test_column, x_values[idx])
           pr  == SteelColumn_factored_axial_capacity(col, SweepN)
       IN  IF IsOk(pr)
           THEN /\ test_column' = col
                /\ y_values' = Append(y_values, pr.val)
                /\ idx' = idx + 1
                /\ UNCHANGED <<pc, ret, sweep_args, x_values, x_values_a, y_values_a>>
           ELSE /\ ret' = pr
                /\ pc' = "raised"
                /\ NoLocals
                /\ x_values_a' = <<>>
                /\ y_values_a' = <<>>
    /\ UNCHANGED <<op, args, prev>>

\* the sweep for "Column A" returns; compare_two_columns calls the one for "Column B"
SweepReturnA ==
    /\ pc = "loop_a"
    /\ idx > Len(x_values)
    /\ x_values_a' = x_values
    /\ y_values_a' = y_values
    /\ sweep_args' = SweepCallB(args)
    /\ x_values' = <<>>
    /\ test_column' = None
    /\ y_values' = <<>>
    /\ idx' = 0
    /\ pc' = "sweep_b"
    /\ UNCHANGED <<op, args, ret, prev>>

\* variant: the two pairs are stored under each other's key
CompareResultSwapped(xa, ya, xb, yb) == [a |-> <<xb, yb>>, b |-> <<xa, ya>>]

\* the dictionary compare_two_columns returns
CompareResult(xa, ya, xb, yb) == [a |-> <<xa, ya>>, b |-> <<xb, yb>>]

\* the sweep for "Column B" returns and compare_two_columns returns its dictionary
SweepReturnB ==
    /\ pc = "loop_b"
    /\ idx > Len(x_values)
    /\ ret' = Ok(CompareResult(x_values_a, y_values_a, x_values, y_values))
    /\ pc' = "done"
    /\ NoLocals
    /\ x_values_a' = <<>>
    /\ y_values_a' = <<>>
    /\ UNCHANGED <<op, args, prev>>

\* ------------------------------------------------------------------------
\* Direct calls of the functions and methods of columns.py
\* ------------------------------------------------------------------------
Column(height, area, Ix, Iy, kx, ky, E) ==
    [height |-> height, area |-> area, Ix |-> Ix, Iy |-> Iy, kx |-> kx,
     ky |-> ky, E |-> E]

Loads ==
    { Load(D, L, S, W, E) :
      D \in {-1, 0, 4}, L \in {-1, 0, 2}, S \in {-1, 0, 3}, W \in {0, 5}, E \in {0, 7} }

Columns ==
    { Column(h, a, ix, 1, kx, ky, e) :
      h \in 0 .. MaxDim, a \in 0 .. MaxDim, ix \in 0 .. MaxDim,
      kx \in 0 .. MaxFactor, ky \in 0 .. MaxFactor, e \in 0 .. MaxFactor }

ColumnLoads == { Load(0, 0, 0, 0, 0), Load(2, 3, 0, 1, 0) }

\* phi in tenths
SteelColumns ==
    { SteelColumn(c.height, c.area, c.Ix, c.Iy, c.kx, c.ky, c.E, "C", fy, ld, Rat(phi, 10)) :
      c \in Columns, fy \in -1 .. 1, ld \in ColumnLoads, phi \in {8, 9} }

\* "x", "X", "y", "Y", "z"
AxisLabels == { <<120>>, <<88>>, <<121>>, <<89>>, <<122>> }

\* n in hundredths
NValues == {0, 134, 224}

Returns(name, a, outcome) ==
    /\ op' = name
    /\ args' = a
    /\ ret' = outcome
    /\ pc' = "returned"
    /\ UNCHANGED <<prev, sweep_vars>>

CallMaxFactoredLoad ==
    /\ pc = "idle"
    /\ \E load \in Loads :
        Returns("max_factored_load", [load |-> load], max_factored_load(load))

CallRadiusOfGyration ==
    /\ pc = "idle"
    /\ \E self \in Columns, axis \in AxisLabels :
        Returns("radius_of_gyration", [self |-> self, axis |-> axis],
                Column_radius_of_gyration(self, axis))

CallEulerBucklingLoad ==
    /\ pc = "idle"
    /\ \E self \in Columns, axis \in AxisLabels :
        Returns("euler_buckling_load", [self |-> self, axis |-> axis],
                Column_euler_buckling_load(self, axis))

CallFactoredAxialLoad ==
    /\ pc = "idle"
    /\ \E self \in SteelColumns :
        Returns("factored_axial_load", [self |-> self],
                SteelColumn_factored_axial_load(self))

CallFactoredAxialCapacity ==
    /\ pc = "idle"
    /\ \E self \in SteelColumns, n \in NValues :
        Returns("factored_axial_capacity", [self |-> self, n |-> n],
                SteelColumn_factored_axial_capacity(self, n))

CallFactoredDcr ==
    /\ pc = "idle"
    /\ \E self \in SteelColumns, n \in NValues :
        Returns("factored_dcr", [self |-> self, n |-> n],
                SteelColumn_factored_dcr(self, n))

Next ==
    \/ CompareTwoColumns
    \/ SweepBegin
    \/ SweepStep
    \/ SweepReturnA
    \/ SweepReturnB
    \/ CallMaxFactoredLoad
    \/ CallRadiusOfGyration
    \/ CallEulerBucklingLoad
    \/ CallFactoredAxialLoad
    \/ CallFactoredAxialCapacity
    \/ CallFactoredDcr

Spec == Init /\ [][Next]_vars

\* ------------------------------------------------------------------------
\* Helpers of the properties
\* ------------------------------------------------------------------------
CeilDiv(a, b) == -((-a) \div b)

InLoop == pc \in {"loop_a", "loop_b"}
CompareDone == op = "compare_two_columns" /\ pc = "done"

\* the capacity the sweep is specified to report at height h: k = 1, n = 1.34
SpecCapacity(area, i_x, i_y, E, fy, h) ==
    factored_axial_capacity(area, i_x, i_y, 1, 1, h, E, fy, 134, Rat(9, 10))

\* pair = (heights, resistances): same length, and the i-th resistance is the
\* capacity at the i-th height
Aligned(pair, area, i_x, i_y, E, fy) ==
    /\ Len(pair[2]) = Len(pair[1])
    /\ \A i \in 1 .. Len(pair[1]) :
         Ok(pair[2][i]) = SpecCapacity(area, i_x, i_y, E, fy, pair[1][i])

\* heights is the progression lo, lo + st, ... cut strictly below hi
HalfOpenProgression(heights, lo, hi, st) ==
    /\ \A i \in 1 .. Len(heights) : heights[i] = lo + (i - 1) * st /\ heights[i] < hi
    /\ lo + Len(heights) * st >= hi

\* ------------------------------------------------------------------------
\* C1
\* ------------------------------------------------------------------------
\* C1 (as stated): for all integers min_height, max_height and interval >= 1 the
\* height sequence is min_height, min_height + interval, ... with exactly
\* ceil((max_height - min_height) / interval) points, all strictly below max_height.
C1_Original ==
    InLoop =>
        /\ Len(x_values) = CeilDiv(sweep_args.max_height - sweep_args.min_height,
                                   sweep_args.interval)
        /\ \A i \in 1 .. Len(x_values) :
             /\ x_values[i] = sweep_args.min_height + (i - 1) * sweep_args.interval
             /\ x_values[i] < sweep_args.max_height

\* C1 (amended): the height sequence is the progression min_height,
\* min_height + interval, ... with exactly max(0, ceil((max_height - min_height)
\* / interval)) points, every point strictly below max_height.
C1_HalfOpenRange ==
    InLoop =>
        LET c == CeilDiv(sweep_args.max_height - sweep_args.min_height,
                         sweep_args.interval)
        IN  /\ Len(x_values) = IF c < 0 THEN 0 ELSE c
            /\ \A i \in 1 .. Len(x_values) :
                 /\ x_values[i] = sweep_args.min_height + (i - 1) * sweep_args.interval
                 /\ x_values[i] < sweep_args.max_height
                 /\ x_values[i] # sweep_args.max_height

\* a sweep of two points whose span is not a multiple of the interval
C1_Witness ==
    /\ InLoop
    /\ Len(x_values) = 2
    /\ sweep_args.interval = 2
    /\ (sweep_args.max_height - sweep_args.min_height) % 2 = 1

C3_Original ==
    CompareDone =>
        /\ DOMAIN ret.val = {"A", "B"}
        /\ Aligned(ret.val["A"], args.area_a, args.i_x_a, args.i_y_a, args.E_a, args.fy_a)
        /\ Aligned(ret.val["B"], args.area_b, args.i_x_b, args.i_y_b, args.E_b, args.fy_b)

\* C3 (amended): compare_two_columns returns a mapping whose keys are exactly
\* "a" and "b"; "a" holds the pair of the sweep with the *_a parameters and "b"
\* the pair of the sweep with the *_b parameters, over the same height range.
C3_KeyedPairs ==
    CompareDone =>
        /\ DOMAIN ret.val = {"a", "b"}
        /\ Aligned(ret.val["a"], args.area_a, args.i_x_a, args.i_y_a, args.E_a, args.fy_a)
        /\ Aligned(ret.val["b"], args.area_b, args.i_x_b, args.i_y_b, args.E_b, args.fy_b)
        /\ HalfOpenProgression(ret.val["a"][1], args.min_height, args.max_height,
                               args.interval)
        /\ HalfOpenProgression(ret.val["b"][1], args.min_height, args.max_height,
                               args.interval)

\* a returned comparison of two different sections over at least two heights
C3_Witness ==
    /\ CompareDone
    /\ Len(ret.val["a"][1]) >= 2
    /\ ret.val["a"][2] # ret.val["b"][2]

\* ------------------------------------------------------------------------
\* C4
\* ------------------------------------------------------------------------
SameRange(a, b) ==
    /\ a.min_height = b.min_height
    /\ a.max_height = b.max_height
    /\ a.interval = b.interval

SectionA(a) == <<a.area_a, a.i_x_a, a.i_y_a, a.E_a, a.fy_a>>
SectionB(a) == <<a.area_b, a.i_x_b, a.i_y_b, a.E_b, a.fy_b>>

BothReturned == CompareDone /\ prev # None /\ IsOk(prev.ret)

\* C4: a sweep's output is a function of its own arguments only: the same
\* section swept first and second in one comparison gives the same pair, a rerun
\* with identical arguments gives the identical outcome, and the pair of one
\* column is unchanged when only the other column's parameters change.
C4_OwnArgumentsOnly ==
    /\ (CompareDone /\ SectionA(args) = SectionB(args)) => ret.val["a"] = ret.val["b"]
    /\ (op = "compare_two_columns" /\ pc \in {"done", "raised"} /\ prev # None
        /\ prev.args = args) => ret = prev.ret
    /\ (BothReturned /\ SameRange(args, prev.args) /\ SectionA(args) = SectionA(prev.args))
          => ret.val["a"] = prev.ret.val["a"]
    /\ (BothReturned /\ SameRange(args, prev.args) /\ SectionB(args) = SectionB(prev.args))
          => ret.val["b"] = prev.ret.val["b"]

\* column A was edited between two returned comparisons, column B was not
C4_Witness ==
    /\ BothReturned
    /\ SameRange(args, prev.args)
    /\ SectionB(args) = SectionB(prev.args)
    /\ SectionA(args) # SectionA(prev.args)
    /\ Len(ret.val["b"][2]) >= 2
    /\ ret.val["a"] # prev.ret.val["a"]

\* ------------------------------------------------------------------------
\* C5
\* ------------------------------------------------------------------------
\* the four combinations, each written out from D, L and S
Combo1(ld) == Rat(14 * ld.D, 10)
Combo2(ld) == RAdd(Rat(125 * ld.D, 100), Rat(15 * ld.L, 10))
Combo3(ld) == RAdd(Combo2(ld), Rat(ld.S, 1))
Combo4(ld) == RAdd(RAdd(Rat(125 * ld.D, 100), Rat(15 * ld.S, 10)), Rat(ld.L, 1))
Combos(ld) == {Combo1(ld), Combo2(ld), Combo3(ld), Combo4(ld)}

LargestOfFour(o, ld) ==
    /\ IsOk(o)
    /\ o.val.kind = "num"
    /\ o.val.c \in Combos(ld)
    /\ \A c \in Combos(ld) : ~RLess(o.val.c, c)
    /\ \A w \in {0, 5}, e \in {0, 7} :
         max_factored_load([ld EXCEPT !.W = w, !.E = e]) = o

\* C5: factored_axial_load / max_factored_load returns the largest of exactly
\* 1.4D, 1.25D+1.5L, 1.25D+1.5L+1.0S and 1.25D+1.5S+1.0L: it is one of the four,
\* not below any of them, and independent of the W and E components.
C5_LargestOfFour ==
    /\ op = "max_factored_load" => LargestOfFour(ret, args.load)
    /\ op = "factored_axial_load" => LargestOfFour(ret, args.self.axial_loads)

\* the snow-governed combination is strictly the largest, with wind present
C5_Witness ==
    /\ op = "max_factored_load"
    /\ args.load.W # 0
    /\ args.load.D < 0
    /\ ret.val.c = Combo4(args.load)
    /\ \A c \in Combos(args.load) \ {Combo4(args.load)} : RLess(c, ret.val.c)

\* ------------------------------------------------------------------------
\* C6
\* ------------------------------------------------------------------------
\* the governing elastic buckling stress min(F_e_x, F_e_y) is defined and zero
GoverningStressZero(c) ==
    /\ c.area # 0 /\ c.height # 0 /\ c.kx # 0 /\ c.ky # 0
    /\ \/ c.E * c.Ix = 0 /\ c.E * c.Iy * c.ky * c.area >= 0
       \/ c.E * c.Iy = 0 /\ c.E * c.Ix * c.kx * c.area >= 0

Degenerate(c) ==
    c.area = 0 \/ c.height = 0 \/ c.kx = 0 \/ c.ky = 0 \/ GoverningStressZero(c)

\* the sweep over these arguments visits height 0
SweepVisitsZero(a) ==
    /\ a.interval >= 1
    /\ a.min_height <= 0
    /\ 0 < a.max_height
    /\ (0 - a.min_height) % a.interval = 0

\* C6: with area = 0, height = 0, kx = 0, ky = 0 or F_e = 0, factored_axial_capacity
\* ends in a division-by-zero error and returns no number; the error reaches the
\* callers uncaught (factored_dcr, and a comparison whose heights contain 0 fails
\* as a whole and returns no sequences).
C6_DivisionByZeroPropagates ==
    /\ (op \in {"factored_axial_capacity", "factored_dcr"} /\ Degenerate(args.self))
          => ret = ZeroDivisionError
    /\ (op = "compare_two_columns" /\ SweepVisitsZero(args)) => pc # "done"
    /\ (op = "compare_two_columns" /\ SweepVisitsZero(args) /\ pc = "raised")
          => ret = ZeroDivisionError

\* a comparison of two sound sections fails at height 0, its second height
C6_Witness ==
    /\ op = "compare_two_columns"
    /\ pc = "raised"
    /\ ret = ZeroDivisionError
    /\ SweepVisitsZero(args)
    /\ args.min_height < 0
    /\ args.area_a # 0 /\ args.E_a # 0
    /\ args.area_b # 0 /\ args.E_b # 0

\* ------------------------------------------------------------------------
\* C7
\* ------------------------------------------------------------------------
AxisCall == op \in {"radius_of_gyration", "euler_buckling_load"}
IsXLabel(axis) == axis \in {<<120>>, <<88>>}
IsYLabel(axis) == axis \in {<<121>>, <<89>>}

\* what the two methods are to return for the moment of inertia I and factor k
AxisResult(self, I, k) ==
    IF op = "radius_of_gyration"
    THEN IF self.area = 0 THEN ZeroDivisionError
         ELSE IF I * self.area < 0 THEN ValueError
         ELSE Ok(Sqrt(Rat(I, self.area)))
    ELSE IF k = 0 \/ self.height = 0 THEN ZeroDivisionError
         ELSE Ok(Pi2(Rat(self.E * I, k * self.height * self.height)))

CaseInsensitiveAxis ==
    /\ (AxisCall /\ IsXLabel(args.axis)) => ret = AxisResult(args.self, args.self.Ix, args.self.kx)
    /\ (AxisCall /\ IsYLabel(args.axis)) => ret = AxisResult(args.self, args.self.Iy, args.self.ky)

\* C7 (as stated): the axis label is matched case-insensitively; for any other
\* label no error is raised: the call does not end in an error outcome and does
\* not return a value computed from either axis.
C7_Original ==
    /\ CaseInsensitiveAxis
    /\ (AxisCall /\ ~IsXLabel(args.axis) /\ ~IsYLabel(args.axis)) =>
          /\ ret.tag \notin {"ZeroDivisionError", "ValueError", "UnboundLocalError"}
          /\ ret # AxisResult(args.self, args.self.Ix, args.self.kx)
          /\ ret # AxisResult(args.self, args.self.Iy, args.self.ky)

\* C7 (amended): the axis label is matched case-insensitively ("x"/"X" select Ix
\* and kx, "y"/"Y" select Iy and ky); for any other label the call returns no
\* value and ends in UnboundLocalError, raised by the return of the unassigned
\* local rather than by an explicit check.
C7_AxisLabels ==
    /\ CaseInsensitiveAxis
    /\ (AxisCall /\ ~IsXLabel(args.axis) /\ ~IsYLabel(args.axis)) =>
          ret = UnboundLocalError

\* euler_buckling_load("z") on a sound column
C7_Witness ==
    /\ op = "euler_buckling_load"
    /\ args.axis = <<122>>
    /\ args.self.height # 0 /\ args.self.kx # 0 /\ args.self.ky # 0
    /\ ret = UnboundLocalError

\* ------------------------------------------------------------------------
\* C8
\* ------------------------------------------------------------------------
\* a * b on computed values: defined for a plain number times any value, and for
\* a value times its own reciprocal factor
ValMul(a, b) ==
    IF a.kind = "num" /\ b.kind = "num" THEN Num(RMul(a.c, b.c))
    ELSE IF a.c = <<0, 1>> \/ b.c = <<0, 1>> THEN Num(<<0, 1>>)
    ELSE IF a.kind = "num" THEN Pr(RMul(a.c, b.c), b.q, b.n, b.e)
    ELSE IF b.kind = "num" THEN Pr(RMul(a.c, b.c), a.q, a.n, a.e)
    ELSE IF a.q = b.q /\ a.n = b.n /\ a.e + b.e = 0 THEN Num(RMul(a.c, b.c))
    ELSE [kind |-> "other"]

\* C8: factored_dcr(n) is factored_axial_load() divided by
\* factored_axial_capacity(n) of the same column (dcr * capacity = load); a
\* capacity of 0 is not special-cased and ends in a division-by-zero error, and
\* an error of the capacity is passed on.
C8_DemandCapacityRatio ==
    op = "factored_dcr" =>
        LET load == SteelColumn_factored_axial_load(args.self)
            cap  == SteelColumn_factored_axial_capacity(args.self, args.n)
        IN  /\ ~IsOk(cap) => ret = cap
            /\ (IsOk(cap) /\ cap.val.c = <<0, 1>>) => ret = ZeroDivisionError
            /\ (IsOk(cap) /\ cap.val.c # <<0, 1>>) =>
                   /\ IsOk(ret)
                   /\ ValMul(ret.val, cap.val) = load.val

\* a loaded column whose capacity is reduced by buckling
C8_Witness ==
    /\ op = "factored_dcr"
    /\ IsOk(ret)
    /\ ret.val.kind = "pr"
    /\ args.self.axial_loads.L # 0

\* ------------------------------------------------------------------------
\* C9
\* ------------------------------------------------------------------------
\* the column a sweep with these arguments would construct for height h
FreshColumn(s, h) ==
    SteelColumn(h, s.area, s.i_x, s.i_y, 1, 1, s.E, s.column_tag, s.fy,
                Load(0, 0, 0, 0, 0), Rat(9, 10))

\* C9: the sweep that reuses one column and overwrites its height gives the same
\* sequences as a sweep constructing a fresh column per step: the reused column
\* differs from the initial one in height only, that height is the one of the
\* step just run, and every resistance is the capacity of the fresh column.
C9_MutationEqualsFresh ==
    InLoop =>
        /\ test_column = FreshColumn(sweep_args,
                                     IF idx = 1 THEN sweep_args.min_height
                                     ELSE x_values[idx - 1])
        /\ Len(y_values) = idx - 1
        /\ \A i \in 1 .. Len(y_values) :
             Ok(y_values[i]) =
                 SteelColumn_factored_axial_capacity(FreshColumn(sweep_args, x_values[i]), 134)

\* two steps have run and the column's height has moved off min_height
C9_Witness ==
    /\ InLoop
    /\ idx = 3
    /\ test_column.height # sweep_args.min_height
    /\ y_values[1] # y_values[2]

\* ------------------------------------------------------------------------
\* C10
\* ------------------------------------------------------------------------
\* C10: the method factored_axial_capacity(n) applies the column's own
\* resistance factor: its result is the free function evaluated with phi = the
\* column's phi field.
C10_OwnResistanceFactor ==
    op = "factored_axial_capacity" =>
        ret = factored_axial_capacity(args.self.area, args.self.Ix, args.self.Iy,
                                      args.self.kx, args.self.ky, args.self.height,
                                      args.self.E, args.self.fy, args.n, args.self.phi)

====
